---- MODULE Spec2Model ----
(***************************************************************************)
(* Model of oxiai: the terminal chat loop of main.rs (draw, poll one       *)
(* event, handle it, await the chat call inline), the message decoding of  *)
(* chat/mod.rs, and the BusyLot ticket counter of busy_lot.rs driven by    *)
(* worker tasks.                                                           *)
(***************************************************************************)
EXTENDS Integers, Sequences, FiniteSets

(* ---------------------------------------------------------------------- *)
(* Bounds                                                                  *)
(* ---------------------------------------------------------------------- *)
\* total number of terminal events the environment delivers in one run
MaxInputs == 4
\* number of worker tasks that can be dispatched in one run
MaxTasks == 3

Chars == {"a"}
Tasks == 1..MaxTasks

VARIABLES
    \* ---- main.rs: App and the position of main ----
    pc,            \* position of main()
    prompt,        \* App.prompt
    messages,      \* App.messages
    waiting,       \* App.waiting
    stream,        \* App.args.stream
    events,        \* terminal events queued for event::poll / event::read
    inputs,        \* number of events delivered so far
    rawMode,       \* terminal raw mode enabled
    altScreen,     \* alternate screen entered
    mouseCapture,  \* mouse capture enabled
    frame,         \* what the last terminal.draw rendered
    stale,         \* events left in the queue by the last poll that read one
    req,           \* messages of the ChatRequest in flight
    runChats,      \* chat requests posted since the last submit
    outcome,       \* how the last chat call ended
    lastBody,      \* the last response body received
    atDispatch,    \* App.messages when the last request was posted
    \* ---- busy_lot.rs: BusyLot, Ticket and the worker tasks using them ----
    inner,         \* BusyLot.inner (AtomicUsize); a value below 0 stands for the wrapped 2^64 + value
    tickets,       \* the live Ticket values, named by their owning task
    taken,         \* how many times each task called park
    released,      \* how many times each task's Ticket was dropped
    taskPc,        \* position of each worker task
    results,       \* the Result channel (worker -> loop)
    observed,      \* the Results the loop has received
    commands,      \* the Command channel (loop and workers -> dispatcher)
    sent,          \* how many Commands each producer has sent (0: the loop, t: task t)
    taskCmd,       \* the Command each task was spawned for
    resultsSent,   \* how many Results each task has sent
    loopAlive,     \* the loop, consumer of the Result channel, still runs
    busyAtQuit,    \* what is_busy() was when the loop ended
    closedSends    \* the tasks that sent a Result after the loop had ended

mainVars == <<pc, prompt, messages, waiting, stream, events, inputs, rawMode,
              altScreen, mouseCapture, frame, stale, req, runChats,
              outcome, lastBody, atDispatch>>
lotVars == <<inner, tickets, taken, released, taskPc, results, observed,
             commands, sent, taskCmd, resultsSent, loopAlive, busyAtQuit,
             closedSends>>
vars == <<mainVars, lotVars>>

(* ---------------------------------------------------------------------- *)
(* chat/mod.rs                                                             *)
(* ---------------------------------------------------------------------- *)
\* the value standing for a panic of todo!()
Panic == "todo!()"

\* Display for MessageRoles
MessageRoles_fmt(role) ==
    CASE role = "System" -> "system"
      [] role = "Tool" -> "tool"
      [] role = "User" -> "user"
      [] role = "Assistant" -> "assistant"
      [] OTHER -> Panic

\* Display for AssistantTool
AssistantTool_fmt(tool) ==
    CASE tool = "WikiSearch" -> "wiki_search"
      [] tool = "WebSearch" -> "web_search"
      [] tool = "GetDateTime" -> "get_date_time"
      [] tool = "GetDirectoryTree" -> "get_dir_tree"
      [] tool = "GetFileContents" -> "get_file_contents"
      [] OTHER -> "invalid_tool"

\* enum Action: Chat, or Tool(AssistantTool) written [tool |-> t]
ActionChat == [tag |-> "Chat", tool |-> "-"]
ActionTool(t) == [tag |-> "Tool", tool |-> t]

\* Display for Action
Action_fmt(action) ==
    IF action.tag = "Chat" THEN "chat" ELSE AssistantTool_fmt(action.tool)

\* ActionPacket::new
ActionPacket_new(action, arguments) ==
    [action |-> action, arguments |-> arguments]

\* Display for ActionPacket: "<action> <arguments as JSON>"
ActionPacket_fmt(packet) ==
    [action |-> Action_fmt(packet.action), arguments |-> packet.arguments]

\* Message::new that stores the variant name, not role.to_string()
Message_new_raw_role(role, action, arguments) ==
    [role |-> role, content |-> ActionPacket_new(action, arguments)]

\* Message::new (role.to_string() panics for MessageRoles::Other)
Message_new(role, action, arguments) ==
    [role |-> MessageRoles_fmt(role), content |-> ActionPacket_new(action, arguments)]

\* From<Message> for Prompt
Prompt_from(message) ==
    [role |-> message.role, content |-> ActionPacket_fmt(message.content)]

\* args_builder! { "response" => value }
args_builder(key, value) == {<<key, value>>}

\* The JSON values a response can carry in the "action" field of its content:
\* the string "chat", the object {"tool": null}, the name of a tool of the
\* tools list, and a name outside that list.
WireChat == "\"chat\""
WireToolNull == "{\"tool\":null}"
WireWikiSearch == "\"wiki_search\""
WireUnknownTool == "\"frobnicate\""
WireActions == {WireChat, WireToolNull, WireWikiSearch, WireUnknownTool}

\* Deserialize for Action (externally tagged, rename_all = "lowercase"; the
\* untagged AssistantTool has only unit variants, so it reads null as its
\* first variant and nothing else).
Action_deserialize(wire) ==
    CASE wire = WireChat -> [ok |-> TRUE, action |-> ActionChat]
      [] wire = WireToolNull -> [ok |-> TRUE, action |-> ActionTool("WikiSearch")]
      [] OTHER -> [ok |-> FALSE, action |-> ActionChat]

\* The response bodies of the service: a body that is not a ChatResponse at
\* all, and ChatResponse bodies with a role and a content packet.
WireRoles == {"assistant", "wizard"}
ReplyArgs == {<<"response", <<"h">>>>}
Bodies ==
    [wellFormed : {TRUE}, role : WireRoles, action : WireActions, arguments : {ReplyArgs}]
    \cup [wellFormed : {FALSE}, role : {"assistant"}, action : {WireChat}, arguments : {ReplyArgs}]

\* from_slice without the second parse of the content: the packet is lost
ChatResponse_from_slice_flat(body) ==
    [ok |-> body.wellFormed,
     message |-> [role |-> body.role, content |-> ActionPacket_new(ActionChat, {})]]

\* serde_json::from_slice::<ChatResponse>, with Message::de_content parsing
\* the content string a second time
ChatResponse_from_slice(body) ==
    LET a == Action_deserialize(body.action) IN
    IF body.wellFormed /\ a.ok
    THEN [ok |-> TRUE,
          message |-> [role |-> body.role,
                       content |-> ActionPacket_new(a.action, body.arguments)]]
    ELSE [ok |-> FALSE,
          message |-> [role |-> body.role,
                       content |-> ActionPacket_new(ActionChat, body.arguments)]]

(* ---------------------------------------------------------------------- *)
(* main.rs                                                                 *)
(* ---------------------------------------------------------------------- *)
EventKinds == {"Char", "Backspace", "Enter", "Esc", "OtherKey", "NonKey"}
Events ==
    [kind : {"Char"}, ch : Chars] \cup [kind : EventKinds \ {"Char"}, ch : {"-"}]

SystemPrompt == [role |-> "system", content |-> [action |-> "-", arguments |-> {}]]

NoBody == [wellFormed |-> FALSE, role |-> "-", action |-> "-", arguments |-> {}]
NoFrame == [lines |-> 0, input |-> <<>>, waiting |-> FALSE, missed |-> 0, any |-> FALSE]

\* the terminal delivers an event to the process
UserInput(e) ==
    /\ inputs < MaxInputs
    /\ pc \notin {"exit_ok", "exit_err", "panicked"}
    /\ events' = Append(events, e)
    /\ inputs' = inputs + 1
    /\ UNCHANGED <<pc, prompt, messages, waiting, stream, rawMode, altScreen,
                   mouseCapture, frame, stale, req, runChats, outcome, lastBody,
                   atDispatch>>
    /\ UNCHANGED lotVars

\* chat_ui: what a frame shows
chat_ui ==
    [lines |-> Len(messages), input |-> prompt, waiting |-> waiting,
     missed |-> stale, any |-> TRUE]

\* terminal.draw(|f| chat_ui(f, &app))? succeeds
DrawOk ==
    /\ pc = "draw"
    /\ frame' = chat_ui
    /\ pc' = "poll"
    /\ UNCHANGED <<prompt, messages, waiting, stream, events, inputs, rawMode,
                   altScreen, mouseCapture, stale, req, runChats, outcome,
                   lastBody, atDispatch>>
    /\ UNCHANGED lotVars

\* terminal.draw(..)? fails: main returns the error
DrawErr ==
    /\ pc = "draw"
    /\ pc' = "exit_err"
    /\ UNCHANGED <<prompt, messages, waiting, stream, events, inputs, rawMode,
                   altScreen, mouseCapture, frame, stale, req, runChats, outcome,
                   lastBody, atDispatch>>
    /\ UNCHANGED lotVars

\* event::poll(100ms)? returns false: no event within the timeout
PollTimeout ==
    /\ pc = "poll"
    /\ events = <<>>
    /\ pc' = "draw"
    /\ stale' = 0
    /\ UNCHANGED <<prompt, messages, waiting, stream, events, inputs, rawMode,
                   altScreen, mouseCapture, frame, req, runChats, outcome,
                   lastBody, atDispatch>>
    /\ UNCHANGED lotVars

\* event::poll(..)? or event::read()? fails: main returns the error
PollErr ==
    /\ pc = "poll"
    /\ pc' = "exit_err"
    /\ UNCHANGED <<prompt, messages, waiting, stream, events, inputs, rawMode,
                   altScreen, mouseCapture, frame, stale, req, runChats, outcome,
                   lastBody, atDispatch>>
    /\ UNCHANGED lotVars

\* event::read()? returns the first queued event; the rest stays queued
ReadEvent(kind) ==
    /\ pc = "poll"
    /\ events # <<>>
    /\ Head(events).kind = kind
    /\ events' = Tail(events)
    /\ stale' = Len(events) - 1

\* KeyCode::Char(c) => app.prompt.push(c)
KeyChar ==
    /\ ReadEvent("Char")
    /\ prompt' = Append(prompt, Head(events).ch)
    /\ pc' = "draw"
    /\ UNCHANGED <<messages, waiting, stream, inputs, rawMode, altScreen,
                   mouseCapture, frame, req, runChats, outcome, lastBody,
                   atDispatch>>
    /\ UNCHANGED lotVars

\* Backspace that pops app.messages instead of app.prompt
KeyBackspace_pops_messages ==
    /\ ReadEvent("Backspace")
    /\ messages' = IF messages = <<>> THEN <<>> ELSE SubSeq(messages, 1, Len(messages) - 1)
    /\ pc' = "draw"
    /\ UNCHANGED <<prompt, waiting, stream, inputs, rawMode, altScreen,
                   mouseCapture, frame, req, runChats, outcome, lastBody,
                   atDispatch>>
    /\ UNCHANGED lotVars

\* KeyCode::Backspace => app.prompt.pop()
KeyBackspace ==
    /\ ReadEvent("Backspace")
    /\ prompt' = IF prompt = <<>> THEN <<>> ELSE SubSeq(prompt, 1, Len(prompt) - 1)
    /\ pc' = "draw"
    /\ UNCHANGED <<messages, waiting, stream, inputs, rawMode, altScreen,
                   mouseCapture, frame, req, runChats, outcome, lastBody,
                   atDispatch>>
    /\ UNCHANGED lotVars

\* The messages of the ChatRequest: the system prompt, then every message
Prompts(msgs) ==
    <<SystemPrompt>> \o [i \in 1..Len(msgs) |-> Prompt_from(msgs[i])]

\* KeyCode::Enter without app.waiting = true (main.rs:169 left out)
KeyEnter_keeps_waiting ==
    /\ ReadEvent("Enter")
    /\ LET message_args == args_builder("response", prompt)
           pushed == Append(messages, Message_new("User", ActionChat, message_args))
       IN /\ prompt' = <<>>
          /\ messages' = pushed
          /\ req' = Prompts(pushed)
          /\ atDispatch' = pushed
    /\ waiting' = waiting
    /\ outcome' = "none"
    /\ lastBody' = NoBody
    /\ IF stream
       THEN pc' = "panicked" /\ runChats' = 0
       ELSE pc' = "await_send" /\ runChats' = 1
    /\ UNCHANGED <<stream, inputs, rawMode, altScreen, mouseCapture, frame>>
    /\ UNCHANGED lotVars

\* KeyCode::Enter: push the User message, build the request, set waiting and
\* start the chat call (todo!() when streaming)
KeyEnter ==
    /\ ReadEvent("Enter")
    /\ LET message_args == args_builder("response", prompt)
           pushed == Append(messages, Message_new("User", ActionChat, message_args))
       IN /\ prompt' = <<>>
          /\ messages' = pushed
          /\ req' = Prompts(pushed)
          /\ atDispatch' = pushed
    /\ waiting' = TRUE
    /\ outcome' = "none"
    /\ lastBody' = NoBody
    /\ IF stream
       THEN pc' = "panicked" /\ runChats' = 0
       ELSE pc' = "await_send" /\ runChats' = 1
    /\ UNCHANGED <<stream, inputs, rawMode, altScreen, mouseCapture, frame>>
    /\ UNCHANGED lotVars

\* KeyCode::Esc => break
KeyEsc ==
    /\ ReadEvent("Esc")
    /\ pc' = "teardown"
    /\ UNCHANGED <<prompt, messages, waiting, stream, inputs, rawMode, altScreen,
                   mouseCapture, frame, req, runChats, outcome, lastBody,
                   atDispatch>>
    /\ UNCHANGED lotVars

\* any other key (_ => {}), and any event that is not Event::Key
OtherEvent ==
    /\ \/ ReadEvent("OtherKey")
       \/ ReadEvent("NonKey")
    /\ pc' = "draw"
    /\ UNCHANGED <<prompt, messages, waiting, stream, inputs, rawMode, altScreen,
                   mouseCapture, frame, req, runChats, outcome, lastBody,
                   atDispatch>>
    /\ UNCHANGED lotVars

\* batch_ollama_response: client.post(..).json(&req).send().await succeeds
BatchSendOk ==
    /\ pc = "await_send"
    /\ pc' = "await_body"
    /\ UNCHANGED <<prompt, messages, waiting, stream, events, inputs, rawMode,
                   altScreen, mouseCapture, frame, stale, req, runChats, outcome,
                   lastBody, atDispatch>>
    /\ UNCHANGED lotVars

\* batch_ollama_response: send().await? or bytes().await? fails; the error
\* returns through batch_ollama_response(..).await? out of main
BatchNetErr ==
    /\ pc \in {"await_send", "await_body"}
    /\ pc' = "exit_err"
    /\ outcome' = "NetworkError"
    /\ UNCHANGED <<prompt, messages, waiting, stream, events, inputs, rawMode,
                   altScreen, mouseCapture, frame, stale, req, runChats, lastBody,
                   atDispatch>>
    /\ UNCHANGED lotVars

\* batch_ollama_response without app.waiting = false (main.rs:310 left out)
BatchBody_keeps_waiting(body) ==
    /\ pc = "await_body"
    /\ LET r == ChatResponse_from_slice(body) IN
       IF r.ok
       THEN messages' = Append(messages, r.message) /\ outcome' = "Ok"
       ELSE messages' = messages /\ outcome' = "DecodeError"
    /\ lastBody' = body
    /\ waiting' = waiting
    /\ pc' = "draw"
    /\ UNCHANGED <<prompt, stream, events, inputs, rawMode, altScreen,
                   mouseCapture, frame, stale, req, runChats, atDispatch>>
    /\ UNCHANGED lotVars

\* a decode failure that takes the user's message back out of the transcript
BatchBody_rollback(body) ==
    /\ pc = "await_body"
    /\ LET r == ChatResponse_from_slice(body) IN
       IF r.ok
       THEN messages' = Append(messages, r.message) /\ outcome' = "Ok"
       ELSE /\ messages' = SubSeq(messages, 1, Len(messages) - 1)
            /\ outcome' = "DecodeError"
    /\ lastBody' = body
    /\ waiting' = FALSE
    /\ pc' = "draw"
    /\ UNCHANGED <<prompt, stream, events, inputs, rawMode, altScreen,
                   mouseCapture, frame, stale, req, runChats, atDispatch>>
    /\ UNCHANGED lotVars

\* batch_ollama_response: the body arrives; push the decoded message or
\* print the decode error; then app.waiting = false
BatchBody(body) ==
    /\ pc = "await_body"
    /\ LET r == ChatResponse_from_slice(body) IN
       IF r.ok
       THEN messages' = Append(messages, r.message) /\ outcome' = "Ok"
       ELSE messages' = messages /\ outcome' = "DecodeError"
    /\ lastBody' = body
    /\ waiting' = FALSE
    /\ pc' = "draw"
    /\ UNCHANGED <<prompt, stream, events, inputs, rawMode, altScreen,
                   mouseCapture, frame, stale, req, runChats, atDispatch>>
    /\ UNCHANGED lotVars

\* after the loop: disable_raw_mode()?, execute!(Leave.., DisableMouse..)?,
\* show_cursor()? all succeed
TeardownOk ==
    /\ pc = "teardown"
    /\ rawMode' = FALSE
    /\ altScreen' = FALSE
    /\ mouseCapture' = FALSE
    /\ pc' = "exit_ok"
    /\ UNCHANGED <<prompt, messages, waiting, stream, events, inputs, frame,
                   stale, req, runChats, outcome, lastBody, atDispatch>>
    /\ UNCHANGED lotVars

\* after the loop: the step failAt of the three fails and main returns there
TeardownErr(failAt) ==
    /\ pc = "teardown"
    /\ rawMode' = IF failAt > 1 THEN FALSE ELSE rawMode
    /\ altScreen' = IF failAt > 2 THEN FALSE ELSE altScreen
    /\ mouseCapture' = IF failAt > 2 THEN FALSE ELSE mouseCapture
    /\ pc' = "exit_err"
    /\ UNCHANGED <<prompt, messages, waiting, stream, events, inputs, frame,
                   stale, req, runChats, outcome, lastBody, atDispatch>>
    /\ UNCHANGED lotVars

(* ---------------------------------------------------------------------- *)
(* busy_lot.rs                                                             *)
(* ---------------------------------------------------------------------- *)
\* AtomicUsize::fetch_add(1, AcqRel): the new value (the counter wraps at
\* 2^64, which no run reaches: every live Ticket takes memory)
fetch_add(v) == v + 1

\* fetch_sub with the subtraction lost
fetch_sub_keeps(v) == v

\* AtomicUsize::fetch_sub(1, AcqRel): the new value; below 0 it stands for
\* the wrapped value 2^64 + v
fetch_sub(v) == v - 1

\* BusyLot::new
BusyLot_new == 0

\* park that hands out a ticket without counting it
BusyLot_park_no_add(t) ==
    /\ inner' = inner
    /\ tickets' = tickets \cup {t}
    /\ taken' = [taken EXCEPT ![t] = @ + 1]

\* park whose ticket is dropped at once inside park: the caller holds none
BusyLot_park_dropped(t) ==
    /\ inner' = inner
    /\ tickets' = tickets
    /\ taken' = [taken EXCEPT ![t] = @ + 1]

\* BusyLot::park, called by task t through its clone of the handle
BusyLot_park(t) ==
    /\ inner' = fetch_add(inner)
    /\ tickets' = tickets \cup {t}
    /\ taken' = [taken EXCEPT ![t] = @ + 1]

\* BusyLot::is_busy
is_busy == inner # 0

\* a Ticket without the Drop impl: it goes away and the counter stays
Ticket_drop_forgets(t) ==
    /\ inner' = inner
    /\ tickets' = tickets \ {t}
    /\ released' = [released EXCEPT ![t] = @ + 1]

\* Drop for Ticket, of the ticket owned by task t
Ticket_drop(t) ==
    /\ inner' = fetch_sub(inner)
    /\ tickets' = tickets \ {t}
    /\ released' = [released EXCEPT ![t] = @ + 1]

(* ---------------------------------------------------------------------- *)
(* Channels, dispatcher and worker tasks: one task per Command, holding    *)
(* one Ticket for its lifetime                                             *)
(* ---------------------------------------------------------------------- *)
Outcomes == {"success", "failure"}

\* the producers of Commands: 0 is the loop, t is worker task t (a chained
\* follow-up)
LoopProducer == 0
Producers == {LoopProducer} \cup Tasks
NoCmd == [producer |-> LoopProducer, n |-> 0]
CommandsSent == LET Sum[k \in 0..MaxTasks] ==
                        IF k = 0 THEN sent[0] ELSE sent[k] + Sum[k - 1]
                IN Sum[MaxTasks]

\* a send that puts the message in front of the queue
channel_send_front(queue, msg) == <<msg>> \o queue

\* send on an unbounded multi-producer channel
channel_send(queue, msg) == Append(queue, msg)

\* the loop sends a RunChat Command
LoopSend ==
    /\ loopAlive
    /\ CommandsSent < MaxTasks
    /\ commands' = channel_send(commands, [producer |-> LoopProducer, n |-> sent[LoopProducer] + 1])
    /\ sent' = [sent EXCEPT ![LoopProducer] = @ + 1]
    /\ UNCHANGED <<inner, tickets, taken, released, taskPc, results, observed,
                   taskCmd, resultsSent, loopAlive, busyAtQuit, closedSends>>
    /\ UNCHANGED mainVars

\* the dispatcher receives the next Command and spawns a task for it
Dispatch(t) ==
    /\ loopAlive
    /\ commands # <<>>
    /\ taskPc[t] = "none"
    /\ \A u \in Tasks : u < t => taskPc[u] # "none"
    /\ taskCmd' = [taskCmd EXCEPT ![t] = Head(commands)]
    /\ commands' = Tail(commands)
    /\ taskPc' = [taskPc EXCEPT ![t] = "spawned"]
    /\ UNCHANGED <<inner, tickets, taken, released, results, observed, sent,
                   resultsSent, loopAlive, busyAtQuit, closedSends>>
    /\ UNCHANGED mainVars

\* the task starts and takes its ticket
TaskPark(t) ==
    /\ taskPc[t] = "spawned"
    /\ BusyLot_park(t)
    /\ taskPc' = [taskPc EXCEPT ![t] = "parked"]
    /\ UNCHANGED <<released, results, observed, commands, sent, taskCmd,
                   resultsSent, loopAlive, busyAtQuit, closedSends>>
    /\ UNCHANGED mainVars

\* the response asks for a tool: the task sends the follow-up RunChat
\* Command of its chain
TaskChain(t) ==
    /\ taskPc[t] = "parked"
    /\ sent[t] = 0
    /\ CommandsSent < MaxTasks
    /\ commands' = channel_send(commands, [producer |-> t, n |-> 1])
    /\ sent' = [sent EXCEPT ![t] = 1]
    /\ UNCHANGED <<inner, tickets, taken, released, taskPc, results, observed,
                   taskCmd, resultsSent, loopAlive, busyAtQuit, closedSends>>
    /\ UNCHANGED mainVars

\* the task's work ends in success or failure and it sends its one Result;
\* when the loop has ended the channel has no consumer any more
TaskSend(t, o) ==
    /\ taskPc[t] = "parked"
    /\ IF loopAlive
       THEN /\ results' = channel_send(results, [task |-> t, outcome |-> o])
            /\ UNCHANGED closedSends
       ELSE /\ closedSends' = closedSends \cup {t}
            /\ UNCHANGED results
    /\ resultsSent' = [resultsSent EXCEPT ![t] = @ + 1]
    /\ taskPc' = [taskPc EXCEPT ![t] = "sent"]
    /\ UNCHANGED <<inner, tickets, taken, released, observed, commands, sent,
                   taskCmd, loopAlive, busyAtQuit>>
    /\ UNCHANGED mainVars

\* the task returns: its ticket goes out of scope
TaskEnd(t) ==
    /\ taskPc[t] = "sent"
    /\ Ticket_drop(t)
    /\ taskPc' = [taskPc EXCEPT ![t] = "ended"]
    /\ UNCHANGED <<taken, results, observed, commands, sent, taskCmd,
                   resultsSent, loopAlive, busyAtQuit, closedSends>>
    /\ UNCHANGED mainVars

\* the task is cancelled or abandoned at an await: its future is dropped,
\* and with it the ticket if the task had taken one
TaskCancel(t) ==
    /\ \/ /\ taskPc[t] = "parked"
          /\ Ticket_drop(t)
       \/ /\ taskPc[t] = "spawned"
          /\ UNCHANGED <<inner, tickets, released>>
    /\ taskPc' = [taskPc EXCEPT ![t] = "cancelled"]
    /\ UNCHANGED <<taken, results, observed, commands, sent, taskCmd,
                   resultsSent, loopAlive, busyAtQuit, closedSends>>
    /\ UNCHANGED mainVars

\* the loop receives the next Result
ObserveResult ==
    /\ loopAlive
    /\ results # <<>>
    /\ observed' = observed \cup {Head(results)}
    /\ results' = Tail(results)
    /\ UNCHANGED <<inner, tickets, taken, released, taskPc, commands, sent,
                   taskCmd, resultsSent, loopAlive, busyAtQuit, closedSends>>
    /\ UNCHANGED mainVars

\* quit: the loop breaks and tears down; it neither waits for the tickets
\* nor cancels the tasks
LoopQuit ==
    /\ loopAlive
    /\ loopAlive' = FALSE
    /\ busyAtQuit' = is_busy
    /\ UNCHANGED <<inner, tickets, taken, released, taskPc, results, observed,
                   commands, sent, taskCmd, resultsSent, closedSends>>
    /\ UNCHANGED mainVars

(* ---------------------------------------------------------------------- *)
(* Specifications                                                          *)
(* ---------------------------------------------------------------------- *)
\* the state after the terminal setup and the construction of App
Init ==
    /\ pc = "draw"
    /\ prompt = <<>>
    /\ messages = <<>>
    /\ waiting = FALSE
    /\ stream \in BOOLEAN
    /\ events = <<>>
    /\ inputs = 0
    /\ rawMode = TRUE
    /\ altScreen = TRUE
    /\ mouseCapture = TRUE
    /\ frame = NoFrame
    /\ stale = 0
    /\ req = <<>>
    /\ runChats = 0
    /\ outcome = "none"
    /\ lastBody = NoBody
    /\ atDispatch = <<>>
    /\ inner = BusyLot_new
    /\ tickets = {}
    /\ taken = [t \in Tasks |-> 0]
    /\ released = [t \in Tasks |-> 0]
    /\ taskPc = [t \in Tasks |-> "none"]
    /\ results = <<>>
    /\ observed = {}
    /\ commands = <<>>
    /\ sent = [p \in Producers |-> 0]
    /\ taskCmd = [t \in Tasks |-> NoCmd]
    /\ resultsSent = [t \in Tasks |-> 0]
    /\ loopAlive = TRUE
    /\ busyAtQuit = FALSE
    /\ closedSends = {}

\* main.rs
Next ==
    \/ \E e \in Events : UserInput(e)
    \/ DrawOk
    \/ DrawErr
    \/ PollTimeout
    \/ PollErr
    \/ KeyChar
    \/ KeyBackspace
    \/ KeyEnter
    \/ KeyEsc
    \/ OtherEvent
    \/ BatchSendOk
    \/ BatchNetErr
    \/ \E body \in Bodies : BatchBody(body)
    \/ TeardownOk
    \/ \E failAt \in 1..3 : TeardownErr(failAt)

Spec == Init /\ [][Next]_vars

\* The steps main takes by itself: the loop task runs from one suspension to
\* the next without waiting for anything but the terminal.  The steps that
\* complete the chat call (BatchSendOk, BatchNetErr, BatchBody) wait for
\* the service and are not among them.
LoopStep ==
    \/ DrawOk
    \/ DrawErr
    \/ PollTimeout
    \/ PollErr
    \/ KeyChar
    \/ KeyBackspace
    \/ KeyEnter
    \/ KeyEsc
    \/ OtherEvent
    \/ TeardownOk
    \/ \E failAt \in 1..3 : TeardownErr(failAt)

\* main.rs with the scheduling of its one task: a step the loop can take is
\* eventually taken; the service may never answer
FairSpec == Spec /\ WF_vars(LoopStep)

\* busy_lot.rs and the worker tasks
NextLot ==
    \/ LoopSend
    \/ \E t \in Tasks : Dispatch(t)
    \/ \E t \in Tasks : TaskPark(t)
    \/ \E t \in Tasks : TaskChain(t)
    \/ \E t \in Tasks, o \in Outcomes : TaskSend(t, o)
    \/ \E t \in Tasks : TaskEnd(t)
    \/ \E t \in Tasks : TaskCancel(t)
    \/ ObserveResult
    \/ LoopQuit

\* the worker tasks run beside a loop that does not stream
InitLot == Init /\ stream = FALSE

SpecLot == InitLot /\ [][NextLot]_vars

(* ---------------------------------------------------------------------- *)
(* Properties of the ticket counter (SpecLot)                              *)
(* ---------------------------------------------------------------------- *)
Dispatched == {t \in Tasks : taskPc[t] # "none"}
ObservedTasks == {r.task : r \in observed}
Returned == {t \in Tasks : taskPc[t] \in {"ended", "cancelled"}}
AllResultsObserved == Dispatched # {} /\ ObservedTasks = Dispatched

\* C1 as stated: once the loop has observed the Results of all N dispatched
\* tasks, is_busy() returns false.
C1_BusyFalseOnceAllObserved ==
    AllResultsObserved => ~is_busy

\* C1 amended: once the loop has observed the Results of all N dispatched
\* tasks and each of these tasks has returned, is_busy() returns false,
\* whether the dispatches succeeded or failed.
C1_TicketConservation ==
    (AllResultsObserved /\ Dispatched \subseteq Returned) => ~is_busy

\* N = MaxTasks dispatches, some succeeded and some failed, all observed,
\* all returned.
C1_Witness ==
    /\ Dispatched = Tasks
    /\ ObservedTasks = Tasks
    /\ \E r \in observed : r.outcome = "failure"
    /\ \E r \in observed : r.outcome = "success"
    /\ Returned = Tasks
    /\ ~is_busy

\* C2: the counter equals the number of live tickets, it is never below
\* zero (the unsigned value never wraps), and is_busy() is true iff some
\* ticket is live.
C2_CounterCountsLiveTickets ==
    /\ inner = Cardinality(tickets)
    /\ inner >= 0
    /\ is_busy <=> (tickets # {})

\* two tickets live at once after another ticket was taken and dropped
C2_Witness ==
    /\ Cardinality(tickets) >= 2
    /\ \E t \in Tasks : released[t] = 1
    /\ is_busy

\* C3: a task that has ended, by returning after a success or a failure or
\* by being cancelled, has released its ticket exactly once (no ticket is
\* released twice), and when every dispatched task has ended is_busy() is
\* false.
C3_ReleasedOnceOnEveryEnd ==
    /\ \A t \in Tasks : released[t] <= taken[t] /\ taken[t] <= 1
    /\ \A t \in Returned : released[t] = taken[t] /\ t \notin tickets
    /\ (Dispatched \subseteq Returned) => ~is_busy

\* every task has ended: one cancelled while holding its ticket, one after
\* a failure, one after a success
C3_Witness ==
    /\ Returned = Tasks
    /\ \E t \in Tasks : taskPc[t] = "cancelled" /\ released[t] = 1
    /\ \E r \in observed : r.outcome = "failure" /\ released[r.task] = 1
    /\ \E r \in observed : r.outcome = "success" /\ released[r.task] = 1
    /\ ~is_busy

\* C12: the Commands of one producer are received by the dispatcher in the
\* order in which that producer sent them, however the sends of the other
\* producers interleave: of two tasks spawned for Commands of the same
\* producer the one spawned first has the Command sent first, and the
\* Commands still queued follow the received ones in send order.
C12_FifoPerProducer ==
    /\ \A t, u \in Dispatched :
          (t < u /\ taskCmd[t].producer = taskCmd[u].producer)
              => taskCmd[t].n < taskCmd[u].n
    /\ \A i, j \in 1..Len(commands) :
          (i < j /\ commands[i].producer = commands[j].producer)
              => commands[i].n < commands[j].n
    /\ \A t \in Dispatched : \A i \in 1..Len(commands) :
          taskCmd[t].producer = commands[i].producer
              => taskCmd[t].n < commands[i].n

\* the loop's first and second Command were received in that order, with the
\* follow-up Command of a worker received between them
C12_Witness ==
    /\ Dispatched = Tasks
    /\ \E t, u, v \in Tasks :
          /\ t < u /\ u < v
          /\ taskCmd[t] = [producer |-> LoopProducer, n |-> 1]
          /\ taskCmd[u].producer \in Tasks
          /\ taskCmd[v] = [producer |-> LoopProducer, n |-> 2]

InFlight == {t \in Tasks : taskPc[t] \in {"parked", "sent"}}

RequestInFlight == runChats > 0 /\ outcome = "none"
Failures == {"NetworkError", "DecodeError"}
Exited == pc \in {"exit_ok", "exit_err"}

\* C4: a submit while Idle sets waiting and posts exactly one chat request,
\* and once the call has ended, in success or in failure, with no chained
\* request, waiting is false again.
C4_IdleWaiting ==
    ~stream =>
        /\ RequestInFlight => (waiting /\ runChats = 1)
        /\ outcome # "none" => ~waiting

\* C5: applying a failed chat call (NetworkError or DecodeError) leaves the
\* loop running at its next draw, with waiting false and the transcript as
\* it was before.
C5_FailureNotFatal ==
    [][(outcome = "none" /\ outcome' \in Failures)
          => (pc' = "draw" /\ ~waiting' /\ messages' = messages)]_vars

\* C6: when the process has exited after the terminal setup, by quit or by
\* an error of draw, poll, read or the chat call, the terminal is restored:
\* raw mode off, alternate screen left, mouse capture off.
C6_TerminalRestoredOnExit ==
    Exited => (~rawMode /\ ~altScreen /\ ~mouseCapture)

\* C7: every frame is drawn with all events applied that were already
\* queued when the loop last read the queue: no frame reflects only a
\* strict subset of them.
C7_DrainComplete ==
    frame.missed = 0

\* a response that requests a tool: the object form that decodes to
\* Action::Tool, or the name of a tool of the tools list
RequestsTool(body) ==
    body.wellFormed /\ body.action \in {WireToolNull, WireWikiSearch}

\* C8: a chain whose responses all request a tool ends with a
\* ToolRecursionLimit failure (after the configured number of chained
\* calls), not otherwise.
C8_RecursionBound ==
    (~stream /\ RequestsTool(lastBody) /\ ~RequestInFlight)
        => outcome = "ToolRecursionLimit"

\* a response naming a tool or a role outside the recognized sets
NamesUnrecognized(body) ==
    body.wellFormed
    /\ \/ body.action = WireUnknownTool
       \/ body.role \notin {"system", "tool", "user", "assistant"}

\* C9: a response naming an unrecognized tool or role ends the call with a
\* recovered failure (UnrecognizedTool; the failure the code reports for a
\* response it does not accept, DecodeError, is taken for it), the
\* transcript does not take the response, and the process does not crash.
C9_UnrecognizedToolRecovered ==
    (~stream /\ NamesUnrecognized(lastBody))
        => /\ outcome \in {"UnrecognizedTool", "DecodeError"}
           /\ messages = atDispatch
           /\ pc # "panicked"

\* C10: while a chat request is in flight the loop is at its draw or at its
\* wait for the next event, never suspended on the request.
C10_LoopNeverWaitsOnRequest ==
    RequestInFlight => pc \in {"draw", "poll"}

\* a quit key is queued or being handled
QuitReceived == \E i \in 1..Len(events) : events[i].kind = "Esc"
Terminated == pc \in {"teardown", "exit_ok", "exit_err", "panicked"}

\* C11: a quit received in any state, also with a request in flight whose
\* response never arrives, leads to the teardown and the end of the loop.
C11_QuitLeadsToTeardown ==
    (~stream /\ QuitReceived) ~> Terminated

\* C13: when a response requests a tool, the transcript has gained the
\* assistant's tool request followed by a Tool entry with the tool's result
\* and a follow-up chat request has been posted (the chain of one tool
\* request makes 2 requests), waiting staying true while it is in flight.
C13_ToolRequestChains ==
    (~stream /\ RequestsTool(lastBody) /\ lastBody.role = "assistant")
        => /\ Len(messages) >= Len(atDispatch) + 2
           /\ messages[Len(atDispatch) + 1].role = "assistant"
           /\ messages[Len(atDispatch) + 2].role = "tool"
           /\ runChats >= 2
           /\ RequestInFlight => waiting

\* the loop reads a queued Enter
SubmitStep ==
    /\ pc = "poll"
    /\ events # <<>>
    /\ Head(events).kind = "Enter"
    /\ events' = Tail(events)

UserEntry(text) ==
    [role |-> "user",
     content |-> [action |-> ActionChat, arguments |-> {<<"response", text>>}]]

\* C14: a submit appends exactly one entry to the transcript, with role
\* user, action Chat and arguments {"response": the input buffer}, leaves
\* the earlier entries as they were and empties the input buffer.
C14_SubmitAppendsUserEntry ==
    [][SubmitStep => (messages' = Append(messages, UserEntry(prompt))
                      /\ prompt' = <<>>)]_vars

\* a second submit, of the typed text "a", after an answered first one
C14_Witness ==
    /\ Len(messages) = 3
    /\ messages[2].role = "assistant"
    /\ messages[3] = UserEntry(<<"a">>)
    /\ prompt = <<>>
    /\ pc = "await_send"

PlainChatReply(body) ==
    body.wellFormed /\ body.action = WireChat /\ body.role = "assistant"

\* C15: after a plain chat reply {action: chat, arguments: {response: R}}
\* of the assistant the transcript is the one the request was built from
\* plus one last entry, the Assistant entry with that content, and waiting
\* is false.
C15_ChatReplyAppended ==
    PlainChatReply(lastBody)
        => /\ messages = Append(atDispatch,
                  [role |-> "assistant",
                   content |-> [action |-> ActionChat,
                                arguments |-> lastBody.arguments]])
           /\ outcome = "Ok"
           /\ ~waiting

\* the reply to the submit of "a" has been applied and drawn
C15_Witness ==
    /\ PlainChatReply(lastBody)
    /\ Len(messages) = 2
    /\ messages[1] = UserEntry(<<"a">>)
    /\ frame.lines = 2
    /\ ~frame.waiting

IsPrefix(a, b) == Len(a) <= Len(b) /\ SubSeq(b, 1, Len(a)) = a

\* C17: the transcript is append-only: every step leaves the transcript it
\* found as a prefix of the new one, so the transcript of every earlier
\* state is a prefix of the current one.
C17_TranscriptAppendOnly ==
    [][IsPrefix(messages, messages')]_vars

\* two submits, the first answered, the second failed to decode, then a
\* typed character
C17_Witness ==
    /\ Len(messages) = 3
    /\ outcome = "DecodeError"
    /\ prompt # <<>>

\* the loop reads a queued event that is neither the submit nor the quit key
OtherInputStep ==
    /\ pc = "poll"
    /\ events # <<>>
    /\ Head(events).kind \notin {"Enter", "Esc"}
    /\ events' = Tail(events)

\* C18: an input event other than submit and quit leaves waiting, the
\* transcript and the requests issued as they were.
C18_OtherInputsKeepSession ==
    [][OtherInputStep => (waiting' = waiting /\ messages' = messages
                          /\ runChats' = runChats /\ req' = req
                          /\ outcome' = outcome /\ pc' = "draw")]_vars

\* a character typed and a backspace applied on a non-empty transcript
C18_Witness ==
    /\ Len(messages) = 2
    /\ prompt = <<"a">>
    /\ inputs = 4
    /\ events = <<>>
    /\ pc = "draw"
    /\ ~waiting

\* C19: the transcript and the waiting flag are written only by the loop's
\* own handling of an event, never by the code that performs the chat call.
C19_SingleWriter ==
    [][(messages' # messages \/ waiting' # waiting) => pc = "poll"]_vars

\* C21: whenever a chat request has been posted and its outcome has not yet
\* been applied to the session, waiting is true. (The loop handles a second
\* submit only after the first call has returned, so a submit made while
\* Waiting stays queued and two requests are never in flight together.)
C21_InFlightImpliesWaiting ==
    RequestInFlight => waiting

\* a second submit made while the first request is still in flight
C21_Witness ==
    /\ RequestInFlight
    /\ waiting
    /\ Len(messages) = 1
    /\ events # <<>>
    /\ Head(events).kind = "Enter"

\* C22: waiting is true only inside the handling of one submit: whenever the
\* loop is at its draw, its poll or its teardown waiting is false, so every
\* frame drawn shows no "(waiting...)" indicator.
C22_NoFrameShowsWaiting ==
    /\ pc \in {"draw", "poll", "teardown"} => ~waiting
    /\ ~frame.waiting

\* a request in flight while the frame on screen, drawn before the submit,
\* shows no indicator
C22_Witness ==
    /\ RequestInFlight
    /\ waiting
    /\ pc = "await_body"
    /\ frame.any
    /\ ~frame.waiting

====
